---- MODULE Spec2Model ----
(***************************************************************************)
(* Model of src/src/workflow.py: the outbound sales campaign.  The entry   *)
(* point reads the company URLs, outbound_sales_workflow handles them one  *)
(* by one (fetch, extract, summarize, contact lookup, compose, publish,    *)
(* log) and the entry point turns the final tally into an exit status.     *)
(*                                                                         *)
(* Three specifications share the variables:                               *)
(*   Spec / FairRun  the campaign, from the entry point to sys.exit;       *)
(*   StartUpSpec     the module's start-up: validate_environment and       *)
(*                   get_google_credentials;                               *)
(*   ExcerptSpec     step 2 of the loop with extract_text_from_html        *)
(*                   worked out on the text of the page.                   *)
(*                                                                         *)
(* Text whose characters matter (URLs, domains, contact names) is a        *)
(* sequence of one-character strings; page text, which runs to thousands   *)
(* of characters, is a sequence of runs (a character and how often it is   *)
(* repeated); text of which only emptiness matters to the campaign         *)
(* (markup, excerpt, summary, subject, body) is a TLA+ string.             *)
(***************************************************************************)
EXTENDS Integers, Sequences, FiniteSets, TLC

VARIABLES
    pc,             \* position of the process: the next call to be made
    company_urls,   \* list read by read_company_urls_from_sheets
    idx,            \* index of the company being handled; Len + 1 after the loop
    results,        \* the tally: processed, successes, failures, errors
    html_content,   \* locals of the loop body
    text_content,
    summary,
    hunter_data,
    email_body,
    email_subject,
    calls,          \* calls[i]: the calls made for company i and how each ended
    contacts,       \* contacts[i]: the record find_contacts_hunter returned
    outcome,        \* outcome[i]: which counter company i incremented, or "none"
    escaped,        \* escaped[i]: the collaborator whose exception reached the loop
    drafts,         \* drafts reported created by the mail API
    success_log,    \* append requests issued to range Success!A:C
    failure_log,    \* append requests issued to range Failures!A:A
    exit_code,      \* << status >> once sys.exit was called, << >> before
    environ,        \* what start-up finds: environment variables, files, OAuth
    creds,          \* creds of get_google_credentials: << >> for None
    flowed,         \* the interactive authorization flow was run
    markup,         \* the page given to extract_text_from_html
    excerpt         \* the text it returned

vars == << pc, company_urls, idx, results, html_content, text_content, summary,
           hunter_data, email_body, email_subject, calls, contacts, outcome,
           escaped, drafts, success_log, failure_log, exit_code,
           environ, creds, flowed, markup, excerpt >>

(* What the campaign leaves alone. *)
aside == << environ, creds, flowed, markup, excerpt >>

----------------------------------------------------------------------------
(* Bounds *)

MaxCompanies == 2

MaxNodes == 2

----------------------------------------------------------------------------
(* Text helpers *)

None == "None"

RECURSIVE Find(_, _, _)
(* Least index >= i of s holding a character of cs, 0 when there is none. *)
Find(s, cs, i) ==
    IF i > Len(s) THEN 0
    ELSE IF s[i] \in cs THEN i
    ELSE Find(s, cs, i + 1)

StartsWith(s, p, i) ==
    /\ i + Len(p) - 1 <= Len(s)
    /\ \A k \in 1..Len(p) : s[i + k - 1] = p[k]

Slice(s, a, b) == IF a > b THEN << >> ELSE SubSeq(s, a, b)

Whitespace == { " ", "\n" }

RECURSIVE lstrip(_)
lstrip(s) == IF s # << >> /\ Head(s) \in Whitespace THEN lstrip(Tail(s)) ELSE s

RECURSIVE rstrip(_)
rstrip(s) ==
    IF s # << >> /\ s[Len(s)] \in Whitespace
    THEN rstrip(SubSeq(s, 1, Len(s) - 1))
    ELSE s

(* str.strip() *)
strip(s) == rstrip(lstrip(s))

RECURSIVE replace(_, _, _)
(* str.replace(old, new): every non-overlapping occurrence, left to right. *)
replace(s, old, new) ==
    IF s = << >> THEN << >>
    ELSE IF StartsWith(s, old, 1)
         THEN new \o replace(Slice(s, Len(old) + 1, Len(s)), old, new)
         ELSE << Head(s) >> \o replace(Tail(s), old, new)

----------------------------------------------------------------------------
(* Page text: a sequence of runs, each a character and the number of times *)
(* it is repeated, no two neighbouring runs of the same character.         *)

Chars(c, n) == [ c |-> c, n |-> n ]

Space == << Chars(" ", 1) >>

IsSpace(r) == r.c \in Whitespace

RECURSIVE TextLen(_)
(* len(text) *)
TextLen(t) == IF t = << >> THEN 0 ELSE Head(t).n + TextLen(Tail(t))

(* a + b *)
cat(a, b) ==
    IF a = << >> THEN b
    ELSE IF b = << >> THEN a
    ELSE IF a[Len(a)].c = b[1].c
    THEN SubSeq(a, 1, Len(a) - 1) \o << Chars(b[1].c, a[Len(a)].n + b[1].n) >> \o Tail(b)
    ELSE a \o b

RECURSIVE text_lstrip(_)
text_lstrip(t) == IF t # << >> /\ IsSpace(Head(t)) THEN text_lstrip(Tail(t)) ELSE t

RECURSIVE text_rstrip(_)
text_rstrip(t) ==
    IF t # << >> /\ IsSpace(t[Len(t)])
    THEN text_rstrip(SubSeq(t, 1, Len(t) - 1))
    ELSE t

(* str.strip() of page text *)
text_strip(t) == text_rstrip(text_lstrip(t))

RECURSIVE stripped_strings(_)
(* The strings of the tree, each stripped, the empty ones left out. *)
stripped_strings(nodes) ==
    IF nodes = << >> THEN << >>
    ELSE LET x == text_strip(Head(nodes))
         IN  IF x = << >>
             THEN stripped_strings(Tail(nodes))
             ELSE << x >> \o stripped_strings(Tail(nodes))

RECURSIVE join(_, _)
(* sep.join(words) *)
join(sep, words) ==
    IF words = << >> THEN << >>
    ELSE IF Len(words) = 1 THEN words[1]
    ELSE cat(cat(words[1], sep), join(sep, Tail(words)))

(* Lines 270-274: get_text(separator=' ', strip=True). *)
get_text(nodes) == join(Space, stripped_strings(nodes))

RECURSIVE FirstSpace(_, _)
(* Least index >= i of a run of whitespace, 0 when there is none. *)
FirstSpace(t, i) ==
    IF i > Len(t) THEN 0
    ELSE IF IsSpace(t[i]) THEN i
    ELSE FirstSpace(t, i + 1)

RECURSIVE split(_)
(* str.split(): the maximal pieces without whitespace. *)
split(t) ==
    IF t = << >> THEN << >>
    ELSE IF IsSpace(Head(t)) THEN split(Tail(t))
    ELSE LET k == FirstSpace(t, 1)
         IN  IF k = 0 THEN << t >>
             ELSE << SubSeq(t, 1, k - 1) >> \o split(SubSeq(t, k, Len(t)))

RECURSIVE first_chars(_, _)
(* text[:k] *)
first_chars(t, k) ==
    IF t = << >> \/ k <= 0 THEN << >>
    ELSE IF Head(t).n >= k THEN << Chars(Head(t).c, k) >>
    ELSE << Head(t) >> \o first_chars(Tail(t), k - Head(t).n)

(* Line 278: the limit of the excerpt. *)
TextLimit == 5000

(* Line 277. *)
clean_up(text) == join(Space, split(text))

(* An extraction that returns the whole cleaned text. *)
extract_text_unlimited(page) ==
    IF ~page.ok THEN << >> ELSE clean_up(get_text(page.nodes))

(* Lines 263-281 on the text of the page.  page.ok is FALSE when the       *)
(* parser raises; page.nodes are the strings of the body (of the document  *)
(* when it has no body) once script, style, nav, footer and header are     *)
(* removed.                                                                *)
extract_text(page) ==
    IF ~page.ok THEN << >>
    ELSE first_chars(clean_up(get_text(page.nodes)), TextLimit)

----------------------------------------------------------------------------
(* urllib.parse.urlparse, as far as find_contacts_hunter uses it: the      *)
(* network location and the path.  ok is FALSE where urlparse raises       *)
(* ValueError ("Invalid IPv6 URL": one bracket without the other).         *)

Alpha == { "h", "w", "a", "b" }

SchemeChars == Alpha \cup { "." }

urlparse(url) ==
    LET i      == Find(url, { ":" }, 1)
        scheme == /\ i > 1
                  /\ url[1] \in Alpha
                  /\ \A k \in 1..(i - 1) : url[k] \in SchemeChars
        rest   == IF scheme THEN Slice(url, i + 1, Len(url)) ELSE url
        slashes == StartsWith(rest, << "/", "/" >>, 1)
        d      == Find(rest, { "/", "?", "#" }, 3)
        netloc == IF ~slashes THEN << >>
                  ELSE IF d = 0 THEN Slice(rest, 3, Len(rest))
                  ELSE Slice(rest, 3, d - 1)
        after  == IF ~slashes THEN rest
                  ELSE IF d = 0 THEN << >>
                  ELSE Slice(rest, d, Len(rest))
        q      == Find(after, { "?", "#" }, 1)
        path   == IF q = 0 THEN after ELSE Slice(after, 1, q - 1)
        open   == Find(netloc, { "[" }, 1) # 0
        close  == Find(netloc, { "]" }, 1) # 0
    IN  [ ok |-> (open <=> close), netloc |-> netloc, path |-> path ]

Www == << "w", "w", "w", "." >>

(* Lines 323-325: the domain find_contacts_hunter derives. *)
derive_domain(company_url) ==
    LET parsed == urlparse(company_url)
        domain == IF parsed.netloc # << >> THEN parsed.netloc ELSE parsed.path
    IN  replace(domain, Www, << >>)

----------------------------------------------------------------------------
(* Inputs: what the outside world can hand to the program. *)

U_www == << "h", ":", "/", "/", "w", "w", "w", ".", "a", "/", "b" >>
U_mid == << "h", ":", "/", "/", "a", ".", "w", "w", "w", ".", "b" >>
U_bad == << "h", ":", "/", "/", "[", "a" >>

Urls == { U_www, U_mid, U_bad }

Blank == << " " >>

(* A row of Sheet1!A:A: no cell, a blank cell, or a URL. *)
SheetRows == { << >>, << Blank >> } \cup { << u >> : u \in Urls }

RECURSIVE SeqsUpTo(_, _)
SeqsUpTo(S, n) ==
    IF n = 0 THEN { << >> }
    ELSE LET shorter == SeqsUpTo(S, n - 1)
         IN  shorter \cup { Append(s, x) : s \in { t \in shorter : Len(t) = n - 1 }, x \in S }

(* Header row and up to MaxCompanies data rows. *)
SheetValues == SeqsUpTo(SheetRows, MaxCompanies + 1)

ApiOutcomes == { "ok", "HttpError", "Exception" }

TextOutcomes == { "error", "", "text" }

E_full == [ value |-> "a@x.com", first_name |-> << "A" >>, last_name |-> << "B" >> ]
E_part == [ value |-> "c@x.com", first_name |-> << "C" >> ]
E_str  == [ notdict |-> TRUE ]

EmailLists == { << >>, << E_full >>, << E_part, E_full >>, << E_str >> }

(* Outcome of the domain-search request: an error (request, status or      *)
(* decoding), a response without data, or a response with data.            *)
HunterOutcomes ==
    { [ kind |-> "error" ], [ kind |-> "nodata" ] }
    \cup { [ kind |-> "data", emails |-> e, organization |-> "Org" ] : e \in EmailLists }

(* Strings of a page: short and long ones, with blanks and line breaks at  *)
(* the ends, in the middle and where the limit of the excerpt falls.       *)
NodeTexts ==
    { << Chars(" ", 2) >>,
      << Chars("\n", 1) >>,
      << Chars("x", 1) >>,
      << Chars("x", 4999) >>,
      << Chars("x", 5000) >>,
      << Chars("x", 6000) >>,
      << Chars("x", 4999), Chars(" ", 1), Chars("y", 10) >>,
      << Chars("x", 4998), Chars(" ", 3), Chars("y", 5) >>,
      << Chars(" ", 1), Chars("x", 3), Chars("\n", 1), Chars(" ", 2), Chars("y", 2), Chars("\n", 1) >>,
      << Chars("x", 2500), Chars("\n", 2), Chars("y", 2499), Chars(" ", 1) >> }

(* A page the parser rejects, or one with up to MaxNodes strings. *)
Markups ==
    { [ ok |-> FALSE, nodes |-> << >> ] }
    \cup { [ ok |-> TRUE, nodes |-> n ] : n \in SeqsUpTo(NodeTexts, MaxNodes) }

NoMarkup == [ ok |-> TRUE, nodes |-> << >> ]

(* Lines 70-74. *)
RequiredVars == { "OPENAI_API_KEY", "HUNTER_API_KEY", "GOOGLE_SPREADSHEET_ID" }

(* token.json: not there, not loadable, or holding a token. *)
TokenStates ==
    { "absent", "unreadable", "valid", "expired_with_refresh_token",
      "expired_without_refresh_token", "invalid_not_expired" }

(* What start-up finds: the required variables that are not set, the token *)
(* file, how a refresh would end, whether credentials.json is there and    *)
(* how the authorization flow would end.                                   *)
Environs ==
    [ missing          : SUBSET RequiredVars,
      token            : TokenStates,
      refresh          : { "ok", "error" },
      credentials_file : BOOLEAN,
      flow             : { "ok", "error" } ]

NominalEnviron ==
    [ missing |-> { }, token |-> "valid", refresh |-> "ok",
      credentials_file |-> TRUE, flow |-> "ok" ]

----------------------------------------------------------------------------
(* A test for None alone, which lets the empty string through. *)
Truthy_not_none(v) == v # None

(* Python truth value of the strings the runner tests. *)
Truthy(v) == v # None /\ v # ""

(* dict.get(key, default) *)
Get(d, key, default) == IF key \in DOMAIN d THEN d[key] ELSE default

(* A call either returns a value or lets an exception leave it. *)
Return(v) == [ raised |-> FALSE, value |-> v ]

Raise(e) == [ raised |-> TRUE, value |-> e ]

----------------------------------------------------------------------------
(* The collaborators.  Each takes the outcome of the outside call it makes *)
(* and gives what the function itself does with it.                        *)

(* Lines 227-250.  resp is "error" when requests.get or raise_for_status   *)
(* raises, the response text otherwise.                                    *)
fetch_website_content(resp) ==
    IF resp = "error" THEN Return(None) ELSE Return(resp)

(* Lines 252-281.  parsed is "error" when the parser raises, the           *)
(* normalised text otherwise.                                              *)
extract_text_from_html(parsed) ==
    IF parsed = "error" THEN Return("") ELSE Return(parsed)

(* Lines 283-308: llm.invoke raises, or the stripped content comes back. *)
summarize_company(reply) ==
    IF reply = "error" THEN Return("") ELSE Return(reply)

(* Lines 358-413. *)
generate_email_body(reply) ==
    IF reply = "error" THEN Return("") ELSE Return(reply)

(* Lines 415-444. *)
generate_email_subject(reply) ==
    IF reply = "error" THEN Return("") ELSE Return(reply)

EmptyContacts(domain) == [ emails |-> << >>, organization |-> "", domain |-> domain ]

(* urlparse and the derived domain of every URL of the input set, worked   *)
(* out once.                                                               *)
parsed_url == [ u \in Urls |-> urlparse(u) ]

domain_of == [ u \in Urls |-> derive_domain(u) ]

(* Lines 310-356.  When urlparse raises, domain is not yet bound and the   *)
(* except clause's own reference to it raises UnboundLocalError.           *)
find_contacts_hunter(company_url, api) ==
    IF ~parsed_url[company_url].ok
    THEN Raise("UnboundLocalError")
    ELSE LET domain == domain_of[company_url]
         IN  IF api.kind = "data"
             THEN Return([ emails |-> api.emails,
                           organization |-> api.organization,
                           domain |-> domain ])
             ELSE Return(EmptyContacts(domain))

(* A publisher that catches HttpError alone, as the two loggers do. *)
create_gmail_draft_http_only(api) ==
    CASE api = "ok"        -> Return(TRUE)
      [] api = "HttpError" -> Return(FALSE)
      [] OTHER             -> Raise(api)

(* Lines 478-522: both except clauses return False. *)
create_gmail_draft(api) ==
    IF api = "ok" THEN Return(TRUE) ELSE Return(FALSE)

(* Lines 524-553: only HttpError is caught. *)
update_success_log(api) ==
    CASE api = "ok"        -> Return(TRUE)
      [] api = "HttpError" -> Return(FALSE)
      [] OTHER             -> Raise(api)

(* Lines 555-581: only HttpError is caught. *)
log_failed_lookup(api) ==
    CASE api = "ok"        -> Return(TRUE)
      [] api = "HttpError" -> Return(FALSE)
      [] OTHER             -> Raise(api)

(* Lines 450-476: rows after the first, without the empty and blank ones;  *)
(* HttpError gives the empty list, any other exception leaves.             *)
RECURSIVE SelectRows(_)
SelectRows(values) ==
    IF values = << >> THEN << >>
    ELSE LET row == Head(values)
         IN  IF row # << >> /\ strip(row[1]) # << >>
             THEN << row[1] >> \o SelectRows(Tail(values))
             ELSE SelectRows(Tail(values))

read_company_urls_from_sheets(api, values) ==
    CASE api = "ok"        -> Return(IF values = << >> THEN << >>
                                     ELSE SelectRows(Tail(values)))
      [] api = "HttpError" -> Return(<< >>)
      [] OTHER             -> Raise(api)

----------------------------------------------------------------------------
(* get_google_credentials, lines 106-186, piece by piece.  creds is << >>  *)
(* for None and << c >> for a Credentials object, which is always truthy.  *)

Credentials(valid, expired, refresh_token) ==
    [ valid |-> valid, expired |-> expired, refresh_token |-> refresh_token ]

ValidCreds == Credentials(TRUE, FALSE, TRUE)

(* Lines 116-121. *)
load_token(token) ==
    CASE token = "absent"                        -> << >>
      [] token = "unreadable"                    -> << >>
      [] token = "valid"                         -> << ValidCreds >>
      [] token = "expired_with_refresh_token"    -> << Credentials(FALSE, TRUE, TRUE) >>
      [] token = "expired_without_refresh_token" -> << Credentials(FALSE, TRUE, FALSE) >>
      [] token = "invalid_not_expired"           -> << Credentials(FALSE, FALSE, TRUE) >>

(* Line 124. *)
not_valid(c) == c = << >> \/ ~c[1].valid

(* Line 125. *)
refreshable(c) == c # << >> /\ c[1].expired /\ c[1].refresh_token

(* Lines 126-132. *)
refresh(c, result) == IF result = "ok" THEN << ValidCreds >> ELSE << >>

----------------------------------------------------------------------------
(* The state after start-up, before the entry point reads its input. *)

(* Lines 748, 750 and 754: the statuses given to sys.exit. *)
EXIT_SUCCESS == 0

EXIT_FAILURE == 1

EXIT_INTERRUPTED == 130

Companies == 1..MaxCompanies

ZeroTally == [ processed |-> 0, successes |-> 0, failures |-> 0, errors |-> 0 ]

(* Nothing was tallied, composed, published or logged. *)
Untouched ==
    /\ idx = 1
    /\ results = ZeroTally
    /\ text_content = None
    /\ summary = None
    /\ hunter_data = EmptyContacts(<< >>)
    /\ email_body = None
    /\ email_subject = None
    /\ contacts = [ i \in Companies |-> EmptyContacts(<< >>) ]
    /\ outcome = [ i \in Companies |-> "none" ]
    /\ escaped = [ i \in Companies |-> "none" ]
    /\ drafts = << >>
    /\ success_log = << >>
    /\ failure_log = << >>
    /\ exit_code = << >>

(* No company was taken up. *)
Idle ==
    /\ company_urls = << >>
    /\ html_content = None
    /\ calls = [ i \in Companies |-> << >> ]
    /\ Untouched

(* No page was given to the extraction. *)
NoExcerpt ==
    /\ markup = NoMarkup
    /\ excerpt = << >>

Init ==
    /\ pc = "read"
    /\ Idle
    /\ environ = NominalEnviron
    /\ creds = << ValidCreds >>
    /\ flowed = FALSE
    /\ NoExcerpt

(* The module is being loaded: line 196 comes next. *)
StartInit ==
    /\ pc = "validate"
    /\ Idle
    /\ environ \in Environs
    /\ creds = << >>
    /\ flowed = FALSE
    /\ NoExcerpt

(* The first company's page was fetched: line 636 comes next. *)
ExcerptInit ==
    /\ pc = "extract"
    /\ company_urls = << U_www >>
    /\ html_content = "text"
    /\ calls = [ i \in Companies |->
                   IF i = 1 THEN << << "fetch_website_content", "value" >> >> ELSE << >> ]
    /\ Untouched
    /\ environ = NominalEnviron
    /\ creds = << ValidCreds >>
    /\ flowed = FALSE
    /\ markup \in Markups
    /\ excerpt = << >>

----------------------------------------------------------------------------
(* Pieces of the loop of outbound_sales_workflow. *)

(* results[k] += 1 *)
increment(res, k) == [ res EXCEPT ![k] = @ + 1 ]

(* A short-circuit that counts nothing. *)
skip_company_uncounted(res) == res

(* Lines 630-633, 639-642, 648-651: an empty intermediate result. *)
skip_company(res) == increment(res, "errors")

(* A failed composition or publication that skips line 698. *)
step5_error_unprocessed(res) == increment(res, "errors")

(* A failed composition or publication counted with the lookups that found *)
(* nobody.                                                                 *)
step5_error_as_failure(res) == increment(increment(res, "failures"), "processed")

(* Lines 687-691, then 698: composition or publishing failed. *)
step5_error(res) == increment(increment(res, "errors"), "processed")

(* Lines 685 and 698. *)
step5_success(res) == increment(increment(res, "successes"), "processed")

(* Lines 696 and 698. *)
step5_failure(res) == increment(increment(res, "failures"), "processed")

(* A runner that takes a refused append for an error. *)
logged_success_checked(res, appended) ==
    IF appended THEN step5_success(res) ELSE step5_error(res)

(* Lines 684-685: what update_success_log returned is not looked at. *)
logged_success(res, appended) == step5_success(res)

(* Lines 695-696: neither is what log_failed_lookup returned. *)
logged_failure(res, appended) == step5_failure(res)

(* A handler that logs the exception and forgets to count it. *)
except_handler_uncounted(res) == res

(* Lines 700-703: the per-company handler. *)
except_handler(res) == increment(res, "errors")

(* Line 622: the for statement takes the next company or ends the loop. *)
loop_next(i) == IF i < Len(company_urls) THEN "fetch" ELSE "return"

(* A handler that leaves the loop instead of continuing it. *)
except_break(i) == "return"

(* Line 703: continue. *)
except_continue(i) == loop_next(i)

(* The counter that moved names the company's classification. *)
Classified(old, new) ==
    CASE new.successes # old.successes -> "successes"
      [] new.failures # old.failures   -> "failures"
      [] new.errors # old.errors       -> "errors"
      [] OTHER                         -> "none"

(* How a call ended, for the record kept in calls. *)
TextTag(r) ==
    IF r.raised THEN "raised"
    ELSE IF r.value = None \/ r.value = "" THEN "empty"
    ELSE "value"

BoolTag(r) ==
    IF r.raised THEN "raised"
    ELSE IF r.value THEN "true"
    ELSE "false"

Called(name, tag) == calls' = [ calls EXCEPT ![idx] = Append(@, << name, tag >>) ]

(* An iteration that ends without moving on to the next company. *)
EndIteration_same_company(res, next, exc) ==
    /\ results' = res
    /\ outcome' = [ outcome EXCEPT ![idx] = Classified(results, res) ]
    /\ escaped' = [ escaped EXCEPT ![idx] = exc ]
    /\ idx' = idx
    /\ pc' = "fetch"
    /\ html_content' = None
    /\ text_content' = None
    /\ summary' = None
    /\ hunter_data' = EmptyContacts(<< >>)
    /\ email_body' = None
    /\ email_subject' = None

(* The iteration for company idx is over with tally res and next position  *)
(* next; exc names where an exception came from, "none" without one.       *)
EndIteration(res, next, exc) ==
    /\ results' = res
    /\ outcome' = [ outcome EXCEPT ![idx] = Classified(results, res) ]
    /\ escaped' = [ escaped EXCEPT ![idx] = exc ]
    /\ idx' = idx + 1
    /\ pc' = next
    /\ html_content' = None
    /\ text_content' = None
    /\ summary' = None
    /\ hunter_data' = EmptyContacts(<< >>)
    /\ email_body' = None
    /\ email_subject' = None

Exit(code) ==
    /\ pc' = "exited"
    /\ exit_code' = << code >>

----------------------------------------------------------------------------
(* The entry point, lines 721-757, up to the call of the workflow. *)

Main_Read ==
    /\ pc = "read"
    /\ UNCHANGED aside
    /\ \E api \in ApiOutcomes, values \in SheetValues :
         LET r == read_company_urls_from_sheets(api, values)
         IN  IF r.raised
             THEN /\ Exit(EXIT_FAILURE)               \* lines 755-757
                  /\ UNCHANGED company_urls
             ELSE IF r.value = << >>
             THEN /\ Exit(EXIT_FAILURE)               \* lines 727-730
                  /\ UNCHANGED company_urls
             ELSE /\ company_urls' = r.value          \* lines 741-744
                  /\ pc' = "fetch"
                  /\ UNCHANGED exit_code
    /\ UNCHANGED << idx, results, html_content, text_content, summary, hunter_data,
                    email_body, email_subject, calls, contacts, outcome, escaped,
                    drafts, success_log, failure_log >>

----------------------------------------------------------------------------
(* The loop body of outbound_sales_workflow, one action per call: the call *)
(* and the statements that follow it up to the next call.                  *)

(* Lines 700-703: an exception of the call named exc reached the loop. *)
Except(exc) == EndIteration(except_handler(results), except_continue(idx), exc)

(* Lines 626-633. *)
Step_Fetch ==
    /\ pc = "fetch"
    /\ UNCHANGED aside
    /\ \E resp \in TextOutcomes :
         LET r == fetch_website_content(resp)
         IN  /\ Called("fetch_website_content", TextTag(r))
             /\ IF r.raised
                THEN Except("fetch_website_content")
                ELSE IF ~Truthy(r.value)
                THEN EndIteration(skip_company(results), loop_next(idx), "none")
                ELSE /\ html_content' = r.value
                     /\ pc' = "extract"
                     /\ UNCHANGED << idx, results, text_content, summary, hunter_data,
                                     email_body, email_subject, outcome, escaped >>
    /\ UNCHANGED << company_urls, contacts, drafts, success_log, failure_log, exit_code >>

(* Lines 635-642. *)
Step_Extract ==
    /\ pc = "extract"
    /\ UNCHANGED aside
    /\ \E parsed \in TextOutcomes :
         LET r == extract_text_from_html(parsed)
         IN  /\ Called("extract_text_from_html", TextTag(r))
             /\ IF r.raised
                THEN Except("extract_text_from_html")
                ELSE IF ~Truthy(r.value)
                THEN EndIteration(skip_company(results), loop_next(idx), "none")
                ELSE /\ text_content' = r.value
                     /\ pc' = "summarize"
                     /\ UNCHANGED << idx, results, html_content, summary, hunter_data,
                                     email_body, email_subject, outcome, escaped >>
    /\ UNCHANGED << company_urls, contacts, drafts, success_log, failure_log, exit_code >>

(* Lines 644-651. *)
Step_Summarize ==
    /\ pc = "summarize"
    /\ UNCHANGED aside
    /\ \E reply \in TextOutcomes :
         LET r == summarize_company(reply)
         IN  /\ Called("summarize_company", TextTag(r))
             /\ IF r.raised
                THEN Except("summarize_company")
                ELSE IF ~Truthy(r.value)
                THEN EndIteration(skip_company(results), loop_next(idx), "none")
                ELSE /\ summary' = r.value
                     /\ pc' = "hunter"
                     /\ UNCHANGED << idx, results, html_content, text_content,
                                     hunter_data, email_body, email_subject, outcome,
                                     escaped >>
    /\ UNCHANGED << company_urls, contacts, drafts, success_log, failure_log, exit_code >>

(* Lines 666-670: what the found branch takes from the first entry. *)
first_email(data) == data.emails[1]

contact_email(data) == Get(first_email(data), "value", "")

first_name(data) == Get(first_email(data), "first_name", << >>)

last_name(data) == Get(first_email(data), "last_name", << >>)

contact_name(data) == strip(first_name(data) \o << " " >> \o last_name(data))

(* Line 662. *)
found(emails) == emails # << >>

(* Lines 653-667.  An entry that is no mapping makes first_email.get raise. *)
Step_Hunter ==
    /\ pc = "hunter"
    /\ UNCHANGED aside
    /\ \E api \in HunterOutcomes :
         LET r      == find_contacts_hunter(company_urls[idx], api)
             emails == Get(r.value, "emails", << >>)
         IN  IF r.raised
             THEN /\ Called("find_contacts_hunter", "raised")
                  /\ Except("find_contacts_hunter")
                  /\ UNCHANGED contacts
             ELSE /\ Called("find_contacts_hunter", api.kind)
                  /\ contacts' = [ contacts EXCEPT ![idx] = r.value ]
                  /\ IF found(emails) /\ "notdict" \in DOMAIN emails[1]
                     THEN Except("first_email.get")
                     ELSE /\ hunter_data' = r.value
                          /\ pc' = IF found(emails) THEN "body" ELSE "failure_log"
                          /\ UNCHANGED << idx, results, html_content, text_content,
                                          summary, email_body, email_subject, outcome,
                                          escaped >>
    /\ UNCHANGED << company_urls, drafts, success_log, failure_log, exit_code >>

(* Lines 672-674. *)
Step_Body ==
    /\ pc = "body"
    /\ UNCHANGED aside
    /\ \E reply \in TextOutcomes :
         LET r == generate_email_body(reply)
         IN  /\ Called("generate_email_body", TextTag(r))
             /\ IF r.raised
                THEN Except("generate_email_body")
                ELSE /\ email_body' = r.value
                     /\ pc' = "subject"
                     /\ UNCHANGED << idx, results, html_content, text_content, summary,
                                     hunter_data, email_subject, outcome, escaped >>
    /\ UNCHANGED << company_urls, contacts, drafts, success_log, failure_log, exit_code >>

(* A test that is content with one of the two. *)
composed_either(body, subject) == Truthy(body) \/ Truthy(subject)

(* Line 680. *)
composed(body, subject) == Truthy(body) /\ Truthy(subject)

(* Lines 676-680 and 689-691, 698. *)
Step_Subject ==
    /\ pc = "subject"
    /\ UNCHANGED aside
    /\ \E reply \in TextOutcomes :
         LET r == generate_email_subject(reply)
         IN  /\ Called("generate_email_subject", TextTag(r))
             /\ IF r.raised
                THEN Except("generate_email_subject")
                ELSE IF composed(email_body, r.value)
                THEN /\ email_subject' = r.value
                     /\ pc' = "draft"
                     /\ UNCHANGED << idx, results, html_content, text_content, summary,
                                     hunter_data, email_body, outcome, escaped >>
                ELSE EndIteration(step5_error(results), loop_next(idx), "none")
    /\ UNCHANGED << company_urls, contacts, drafts, success_log, failure_log, exit_code >>

(* Lines 682 and 687-688, 698.  drafts holds the drafts the call reported. *)
Step_Draft ==
    /\ pc = "draft"
    /\ UNCHANGED aside
    /\ \E api \in ApiOutcomes :
         LET r == create_gmail_draft(api)
         IN  /\ Called("create_gmail_draft", BoolTag(r))
             /\ IF r.raised
                THEN /\ Except("create_gmail_draft")
                     /\ UNCHANGED drafts
                ELSE IF r.value
                THEN /\ drafts' = Append(drafts, [ company |-> idx,
                                                   to      |-> contact_email(hunter_data),
                                                   subject |-> email_subject,
                                                   body    |-> email_body ])
                     /\ pc' = "success_log"
                     /\ UNCHANGED << idx, results, html_content, text_content, summary,
                                     hunter_data, email_body, email_subject, outcome,
                                     escaped >>
                ELSE /\ EndIteration(step5_error(results), loop_next(idx), "none")
                     /\ UNCHANGED drafts
    /\ UNCHANGED << company_urls, contacts, success_log, failure_log, exit_code >>

(* Lines 684-686, 698 and 700-703. *)
Step_SuccessLog ==
    /\ pc = "success_log"
    /\ UNCHANGED aside
    /\ success_log' = Append(success_log,
                             [ company |-> idx,
                               row |-> << company_urls[idx],
                                          contact_email(hunter_data),
                                          contact_name(hunter_data) >> ])
    /\ \E api \in ApiOutcomes :
         LET r == update_success_log(api)
         IN  /\ Called("update_success_log", BoolTag(r))
             /\ IF r.raised
                THEN Except("update_success_log")
                ELSE EndIteration(logged_success(results, r.value), loop_next(idx), "none")
    /\ UNCHANGED << company_urls, contacts, drafts, failure_log, exit_code >>

(* Lines 693-698 and 700-703. *)
Step_FailureLog ==
    /\ pc = "failure_log"
    /\ UNCHANGED aside
    /\ failure_log' = Append(failure_log,
                             [ company |-> idx,
                               row |-> << Get(hunter_data, "domain", << >>) >> ])
    /\ \E api \in ApiOutcomes :
         LET r == log_failed_lookup(api)
         IN  /\ Called("log_failed_lookup", BoolTag(r))
             /\ IF r.raised
                THEN Except("log_failed_lookup")
                ELSE EndIteration(logged_failure(results, r.value), loop_next(idx), "none")
    /\ UNCHANGED << company_urls, contacts, drafts, success_log, exit_code >>

----------------------------------------------------------------------------
(* An exit test that forgets the errors. *)
exit_status_processed_only(res, n) ==
    IF res.processed > 0 THEN EXIT_SUCCESS ELSE EXIT_FAILURE

(* Lines 746-750: the workflow returned its tally. *)
exit_status(res, n) ==
    IF res.processed > 0 /\ res.errors < n THEN EXIT_SUCCESS ELSE EXIT_FAILURE

Main_Exit ==
    /\ pc = "return"
    /\ UNCHANGED aside
    /\ Exit(exit_status(results, Len(company_urls)))
    /\ UNCHANGED << company_urls, idx, results, html_content, text_content, summary,
                    hunter_data, email_body, email_subject, calls, contacts, outcome,
                    escaped, drafts, success_log, failure_log >>

(* Lines 752-754.  KeyboardInterrupt is no Exception: no except clause of  *)
(* the collaborators or of the loop catches it, wherever it arrives.       *)
Interrupt ==
    /\ pc # "exited"
    /\ UNCHANGED aside
    /\ Exit(EXIT_INTERRUPTED)
    /\ UNCHANGED << company_urls, idx, results, html_content, text_content, summary,
                    hunter_data, email_body, email_subject, calls, contacts, outcome,
                    escaped, drafts, success_log, failure_log >>

Step ==
    \/ Step_Fetch
    \/ Step_Extract
    \/ Step_Summarize
    \/ Step_Hunter
    \/ Step_Body
    \/ Step_Subject
    \/ Step_Draft
    \/ Step_SuccessLog
    \/ Step_FailureLog

Run == Main_Read \/ Step \/ Main_Exit

Next == Run \/ Interrupt

Spec == Init /\ [][Next]_vars

(* Without an interrupt every call returns and the process keeps going. *)
FairRun == Init /\ [][Run]_vars /\ WF_vars(Run)

----------------------------------------------------------------------------
(* Step 2 of the loop on the text of the page. *)

(* What the campaign keeps of a text: whether it is empty. *)
Emptiness(text) == IF text = << >> THEN "" ELSE "text"

(* Lines 635-642, with the excerpt worked out. *)
Step_ExtractText ==
    /\ pc = "extract"
    /\ LET text == extract_text(markup)
           r    == Return(Emptiness(text))
       IN  /\ excerpt' = text
           /\ Called("extract_text_from_html", TextTag(r))
           /\ IF ~Truthy(r.value)
              THEN EndIteration(skip_company(results), loop_next(idx), "none")
              ELSE /\ text_content' = r.value
                   /\ pc' = "summarize"
                   /\ UNCHANGED << idx, results, html_content, summary, hunter_data,
                                   email_body, email_subject, outcome, escaped >>
    /\ UNCHANGED << company_urls, contacts, drafts, success_log, failure_log, exit_code,
                    environ, creds, flowed, markup >>

ExcerptNext == Step_ExtractText

ExcerptSpec == ExcerptInit /\ [][ExcerptNext]_vars

----------------------------------------------------------------------------
(* Start-up, lines 192-203: the module validates the environment and gets  *)
(* the Google credentials before anything of the campaign runs.            *)

campaign == << company_urls, idx, results, html_content, text_content, summary,
               hunter_data, email_body, email_subject, calls, contacts, outcome,
               escaped, drafts, success_log, failure_log >>

(* Lines 68-84 and 196. *)
Validate_Environment ==
    /\ pc = "validate"
    /\ IF environ.missing # { }
       THEN Exit(EXIT_FAILURE)
       ELSE /\ pc' = "load_token"
            /\ UNCHANGED exit_code
    /\ UNCHANGED << campaign, environ, creds, flowed, markup, excerpt >>

(* Lines 111-121. *)
Credentials_Load ==
    /\ pc = "load_token"
    /\ creds' = load_token(environ.token)
    /\ pc' = "refresh"
    /\ UNCHANGED << campaign, exit_code, environ, flowed, markup, excerpt >>

(* Lines 124-132. *)
Credentials_Refresh ==
    /\ pc = "refresh"
    /\ IF not_valid(creds)
       THEN /\ creds' = IF refreshable(creds) THEN refresh(creds, environ.refresh) ELSE creds
            /\ pc' = "obtain"
       ELSE /\ pc' = "return_creds"
            /\ UNCHANGED creds
    /\ UNCHANGED << campaign, exit_code, environ, flowed, markup, excerpt >>

(* Lines 134-184.  The three environments (WSL, headless, interactive)     *)
(* all end in flow.run_local_server.                                       *)
Credentials_Obtain ==
    /\ pc = "obtain"
    /\ IF creds # << >>
       THEN /\ pc' = "return_creds"
            /\ UNCHANGED << creds, flowed, exit_code >>
       ELSE IF ~environ.credentials_file
       THEN /\ Exit(EXIT_FAILURE)                     \* lines 135-139
            /\ UNCHANGED << creds, flowed >>
       ELSE /\ flowed' = TRUE
            /\ IF environ.flow = "ok"
               THEN /\ creds' = << ValidCreds >>       \* lines 141-176
                    /\ pc' = "return_creds"
                    /\ UNCHANGED exit_code
               ELSE /\ Exit(EXIT_FAILURE)             \* lines 178-184
                    /\ UNCHANGED creds
    /\ UNCHANGED << campaign, environ, markup, excerpt >>

(* Lines 186 and 200: google_creds is what creds was. *)
Credentials_Return ==
    /\ pc = "return_creds"
    /\ pc' = "read"
    /\ UNCHANGED << campaign, exit_code, environ, creds, flowed, markup, excerpt >>

StartNext ==
    \/ Validate_Environment
    \/ Credentials_Load
    \/ Credentials_Refresh
    \/ Credentials_Obtain
    \/ Credentials_Return

StartUpSpec == StartInit /\ [][StartNext]_vars

----------------------------------------------------------------------------
(* What the claims speak of. *)

N == Len(company_urls)

Sum == results.successes + results.failures + results.errors

(* Company i's iteration is over. *)
Done(i) == i < idx

Has(i, name, tag) == \E k \in DOMAIN calls[i] : calls[i][k] = << name, tag >>

WasCalled(i, name) == \E k \in DOMAIN calls[i] : calls[i][k][1] = name

DraftsFor(i) == { k \in DOMAIN drafts : drafts[k].company = i }

SuccessRows(i) == { k \in DOMAIN success_log : success_log[k].company = i }

FailureRows(i) == { k \in DOMAIN failure_log : failure_log[k].company = i }

AllClassified == \A i \in 1..N : outcome[i] # "none"

Counters == { "successes", "failures", "errors" }

----------------------------------------------------------------------------
(* C1: every iteration of the loop adds exactly 1 to exactly one of        *)
(* successes, failures, errors, whatever the collaborators return or       *)
(* raise; so after k companies the three sum to k, and to the length of    *)
(* the list when the workflow returns.                                     *)
C1_OneCounterPerCompany ==
    /\ [](Sum = idx - 1)
    /\ [](pc = "return" => Sum = N)
    /\ [][ /\ \A k \in Counters : results'[k] - results[k] \in { 0, 1 }
           /\ Cardinality({ k \in Counters : results'[k] # results[k] }) = idx' - idx
         ]_vars

C1_Witness ==
    /\ pc = "return"
    /\ N = 2
    /\ escaped[1] = "log_failed_lookup"
    /\ results.successes = 1
    /\ results.errors = 1

----------------------------------------------------------------------------
(* C2: a company whose processing raises an exception is classified error  *)
(* and the loop goes on with the next company; so once the workflow is     *)
(* invoked it reaches its final return with every company classified.      *)
C2_CampaignNeverAborts ==
    /\ [](\A i \in Companies : escaped[i] # "none" => outcome[i] = "errors" /\ Done(i))
    /\ [][ \A i \in Companies :
             escaped[i] = "none" /\ escaped'[i] # "none"
             => /\ idx' = i + 1
                /\ pc' = IF i < N THEN "fetch" ELSE "return"
         ]_vars
    /\ (pc = "fetch") ~> (pc = "return" /\ AllClassified)

C2_Witness ==
    /\ pc = "return"
    /\ N = 2
    /\ escaped[1] = "update_success_log"
    /\ outcome[1] = "errors"
    /\ outcome[2] = "successes"

----------------------------------------------------------------------------
NoOutput(i) == DraftsFor(i) = { } /\ SuccessRows(i) = { } /\ FailureRows(i) = { }

StopsAt(i, name, n) ==
    Has(i, name, "empty") =>
        /\ Len(calls[i]) = n
        /\ calls[i][n] = << name, "empty" >>
        /\ outcome[i] = "errors"
        /\ escaped[i] = "none"
        /\ NoOutput(i)

(* C3: an empty fetch result classifies the company error with no other    *)
(* collaborator invoked for it; an empty extraction stops before the       *)
(* summarizer, an empty summary before the contact finder.                 *)
C3_ShortCircuit ==
    \A i \in Companies :
        /\ StopsAt(i, "fetch_website_content", 1)
        /\ StopsAt(i, "extract_text_from_html", 2)
        /\ StopsAt(i, "summarize_company", 3)

C3_Witness ==
    /\ N = 2
    /\ Has(1, "fetch_website_content", "empty")
    /\ Has(2, "summarize_company", "empty")
    /\ Done(2)

----------------------------------------------------------------------------
NotFound(i) ==
    /\ Done(i)
    /\ WasCalled(i, "find_contacts_hunter")
    /\ ~Has(i, "find_contacts_hunter", "raised")
    /\ contacts[i].emails = << >>

(* C4: when the contact lookup yields no email for domain d, the failure   *)
(* log receives exactly one append of the row [d], no draft is created, no *)
(* success row is written and the company is classified failure.           *)
C4_NotFoundBranch ==
    \A i \in Companies :
        NotFound(i) =>
            /\ Cardinality(FailureRows(i)) = 1
            /\ \A k \in FailureRows(i) : failure_log[k].row = << contacts[i].domain >>
            /\ DraftsFor(i) = { }
            /\ SuccessRows(i) = { }
            /\ outcome[i] = "failures"

----------------------------------------------------------------------------
Published(i) == Done(i) /\ Has(i, "create_gmail_draft", "true")

(* C5: when an email was found and subject, body and draft all succeed,    *)
(* exactly one draft is created, addressed to the first entry's value, the *)
(* success log receives exactly one row [url, that email, the contact's    *)
(* name] and the company is classified success.                            *)
C5_FoundBranch ==
    \A i \in Companies :
        Published(i) =>
            /\ Cardinality(DraftsFor(i)) = 1
            /\ \A k \in DraftsFor(i) : drafts[k].to = contact_email(contacts[i])
            /\ Cardinality(SuccessRows(i)) = 1
            /\ \A k \in SuccessRows(i) :
                 success_log[k].row = << company_urls[i], contact_email(contacts[i]),
                                         contact_name(contacts[i]) >>
            /\ outcome[i] = "successes"

----------------------------------------------------------------------------
(* C6: when create_gmail_draft returns false the company is classified     *)
(* error and neither log is appended to; the publisher turns every         *)
(* exception into that false.                                              *)
C6_PublishFailure ==
    \A i \in Companies :
        /\ ~Has(i, "create_gmail_draft", "raised")
        /\ Has(i, "create_gmail_draft", "false") =>
               /\ outcome[i] = "errors"
               /\ escaped[i] = "none"
               /\ NoOutput(i)

C6_Witness ==
    /\ Has(1, "create_gmail_draft", "false")
    /\ contacts[1].emails # << >>
    /\ Done(1)

----------------------------------------------------------------------------
(* C7: an empty subject or body classifies the company error, without a    *)
(* call of create_gmail_draft and without a log row; a draft is attempted  *)
(* only with both non-empty.                                               *)
C7_CompositionFailure ==
    \A i \in Companies :
        /\ ( Has(i, "generate_email_body", "empty")
             \/ Has(i, "generate_email_subject", "empty") ) =>
               /\ ~WasCalled(i, "create_gmail_draft")
               /\ NoOutput(i)
               /\ Done(i) => outcome[i] = "errors"
        /\ WasCalled(i, "create_gmail_draft") =>
               /\ Has(i, "generate_email_body", "value")
               /\ Has(i, "generate_email_subject", "value")

C7_Witness ==
    /\ Has(1, "generate_email_body", "empty")
    /\ Has(1, "generate_email_subject", "value")
    /\ Done(1)

----------------------------------------------------------------------------
Collaborators ==
    { "fetch_website_content", "extract_text_from_html", "summarize_company",
      "find_contacts_hunter", "generate_email_body", "generate_email_subject",
      "create_gmail_draft", "update_success_log", "log_failed_lookup" }

(* C8: no error inside a collaborator leaves it as a raised exception.     *)
C8_NothingLeavesACollaborator ==
    \A i \in Companies : escaped[i] \notin Collaborators

----------------------------------------------------------------------------
LookupFailed(i) ==
    \/ Has(i, "find_contacts_hunter", "raised")
    \/ Has(i, "find_contacts_hunter", "error")
    \/ Has(i, "find_contacts_hunter", "nodata")

(* C9: on any failure (URL parsing, request, response) or missing data,    *)
(* find_contacts_hunter returns the record with no email, no organization  *)
(* and the derived domain, so that the not-found branch logs the domain.   *)
C9_AlwaysARecord ==
    \A i \in Companies :
        LookupFailed(i) =>
            /\ ~Has(i, "find_contacts_hunter", "raised")
            /\ contacts[i] = EmptyContacts(domain_of[company_urls[i]])
            /\ Done(i) => FailureRows(i) # { }

----------------------------------------------------------------------------
AllErrors == \A i \in 1..N : outcome[i] = "errors"

(* C10: the process exits 0 exactly when the campaign ran to the end with  *)
(* a company processed and not every company an error; 1 on an empty list  *)
(* (the workflow is not invoked), when every company errored or when an    *)
(* exception reaches the top; 130 on an interrupt, which is not counted as *)
(* an error and after which no company is handled.                         *)
C10_ExitStatus ==
    pc = "exited" =>
        LET code == exit_code[1]
        IN  /\ code \in { EXIT_SUCCESS, EXIT_FAILURE, EXIT_INTERRUPTED }
            /\ code # EXIT_INTERRUPTED =>
                 /\ code = EXIT_SUCCESS <=>
                        (N > 0 /\ AllClassified /\ results.processed > 0 /\ ~AllErrors)
                 /\ N = 0 => /\ code = EXIT_FAILURE
                             /\ \A i \in Companies : calls[i] = << >>
                             /\ drafts = << >> /\ success_log = << >> /\ failure_log = << >>
                 /\ (N > 0 /\ AllErrors) => code = EXIT_FAILURE
            /\ code = EXIT_INTERRUPTED =>
                 /\ results.errors = Cardinality({ i \in Companies : outcome[i] = "errors" })
                 /\ \A i \in Companies : escaped[i] # "KeyboardInterrupt"
                 /\ \A j \in Companies :
                      /\ j >= idx => outcome[j] = "none"
                      /\ j > idx => calls[j] = << >>

C10_Witness ==
    /\ pc = "exited"
    /\ exit_code = << EXIT_FAILURE >>
    /\ N = 2
    /\ results.processed = 2
    /\ results.errors = 2

----------------------------------------------------------------------------
FoundOrder ==
    << "fetch_website_content", "extract_text_from_html", "summarize_company",
       "find_contacts_hunter", "generate_email_body", "generate_email_subject",
       "create_gmail_draft", "update_success_log" >>

NotFoundOrder ==
    << "fetch_website_content", "extract_text_from_html", "summarize_company",
       "find_contacts_hunter", "log_failed_lookup" >>

Names(i) == [ k \in DOMAIN calls[i] |-> calls[i][k][1] ]

Begins(a, b) == Len(a) <= Len(b) /\ \A k \in 1..Len(a) : a[k] = b[k]

(* C11: companies are handled in input order, one at a time, each once;    *)
(* within a company every collaborator is called at most once and in the   *)
(* order fetch, extract, summarize, contact lookup, compose, publish, log; *)
(* a classification, once made, never changes.                             *)
C11_FixedOrderNoRetry ==
    /\ [](\A i \in Companies :
            /\ Begins(Names(i), FoundOrder) \/ Begins(Names(i), NotFoundOrder)
            /\ i < idx => outcome[i] # "none"
            /\ i = idx => outcome[i] = "none"
            /\ i > idx => outcome[i] = "none" /\ calls[i] = << >>)
    /\ [][ /\ idx' \in { idx, idx + 1 }
           /\ \A i \in Companies :
                /\ calls'[i] # calls[i] =>
                       /\ i = idx
                       /\ Len(calls'[i]) = Len(calls[i]) + 1
                       /\ SubSeq(calls'[i], 1, Len(calls[i])) = calls[i]
                /\ outcome[i] # "none" => outcome'[i] = outcome[i]
                /\ outcome'[i] # outcome[i] => i = idx /\ idx' = idx + 1
         ]_vars

C11_Witness ==
    /\ pc = "return"
    /\ N = 2
    /\ Names(1) = FoundOrder
    /\ Names(2) = NotFoundOrder

----------------------------------------------------------------------------
ReachedEndOfStep5(i) ==
    /\ Done(i)
    /\ escaped[i] = "none"
    /\ WasCalled(i, "find_contacts_hunter")

CompositionOrPublishError(i) ==
    /\ outcome[i] = "errors"
    /\ escaped[i] = "none"
    /\ \/ Has(i, "generate_email_body", "empty")
       \/ Has(i, "generate_email_subject", "empty")
       \/ Has(i, "create_gmail_draft", "false")

(* C12: processed goes up at most once per company, and only when the      *)
(* iteration reaches the end of step 5 without raising; so successes +     *)
(* failures <= processed <= successes + failures + errors, and processed   *)
(* is successes + failures + the companies that errored at composition or  *)
(* publishing.                                                             *)
C12_ProcessedCounter ==
    /\ [](/\ results.successes + results.failures <= results.processed
          /\ results.processed <= Sum
          /\ results.processed = Cardinality({ i \in Companies : ReachedEndOfStep5(i) })
          /\ results.processed =
                 results.successes + results.failures
                 + Cardinality({ i \in Companies : CompositionOrPublishError(i) }))
    /\ [][ /\ results'.processed - results.processed \in { 0, 1 }
           /\ results'.processed # results.processed =>
                  /\ idx' = idx + 1
                  /\ escaped'[idx] = "none"
                  /\ outcome'[idx] # "none"
         ]_vars

C12_Witness ==
    /\ pc = "return"
    /\ N = 2
    /\ Has(1, "create_gmail_draft", "false")
    /\ escaped[2] = "update_success_log"
    /\ results.processed = 1
    /\ results.errors = 2

----------------------------------------------------------------------------
host(u) == IF parsed_url[u].netloc # << >> THEN parsed_url[u].netloc ELSE parsed_url[u].path

without_leading_www(s) == IF StartsWith(s, Www, 1) THEN Slice(s, Len(Www) + 1, Len(s)) ELSE s

(* C13: the domain find_contacts_hunter derives is the URL's network       *)
(* location (the path when that is empty) with only a leading "www."       *)
(* removed; a "www." elsewhere in the host stays.                          *)
C13_LeadingWwwOnly ==
    \A i \in Companies :
        ( WasCalled(i, "find_contacts_hunter") /\ ~Has(i, "find_contacts_hunter", "raised") )
        => contacts[i].domain = without_leading_www(host(company_urls[i]))

----------------------------------------------------------------------------
Extracted == pc # "extract"

Normalized == clean_up(get_text(markup.nodes))

VisibleTextEmpty ==
    \A k \in DOMAIN markup.nodes : \A j \in DOMAIN markup.nodes[k] : IsSpace(markup.nodes[k][j])

NoSpaceRun(t) ==
    \A k \in DOMAIN t :
        IsSpace(t[k]) => /\ t[k].n = 1
                         /\ k < Len(t) => ~IsSpace(t[k + 1])

BeginsText(a, b) ==
    \/ a = << >>
    \/ /\ Len(a) <= Len(b)
       /\ \A k \in 1..(Len(a) - 1) : a[k] = b[k]
       /\ a[Len(a)].c = b[Len(a)].c
       /\ a[Len(a)].n <= b[Len(a)].n

NoLeadingSpace(t) == t # << >> => ~IsSpace(t[1])

NoTrailingSpace(t) == t # << >> => ~IsSpace(t[Len(t)])

ExcerptShape ==
    /\ TextLen(excerpt) <= TextLimit
    /\ NoSpaceRun(excerpt)
    /\ NoLeadingSpace(excerpt)
    /\ BeginsText(excerpt, Normalized)
    /\ TextLen(Normalized) <= TextLimit => TextLen(excerpt) = TextLen(Normalized)
    /\ TextLen(Normalized) > TextLimit => TextLen(excerpt) = TextLimit
    /\ markup.nodes = << << Chars("x", 6000) >> >> => excerpt = << Chars("x", 5000) >>
    /\ VisibleTextEmpty =>
           /\ excerpt = << >>
           /\ outcome[1] = "errors"
           /\ escaped[1] = "none"
           /\ Len(calls[1]) = 2
    /\ ~markup.ok => excerpt = << >>

(* C14 as stated: the excerpt of extract_text_from_html has at most 5000   *)
(* characters, no run of two or more whitespace characters and no leading  *)
(* or trailing whitespace, and is the first 5000 characters of the         *)
(* normalized text when that is longer; empty or whitespace-only visible   *)
(* text gives the empty string, which the runner classifies as error.      *)
C14_Excerpt ==
    Extracted => ExcerptShape /\ NoTrailingSpace(excerpt)

(* C14 amended: as stated, except that the excerpt is free of trailing     *)
(* whitespace only when the normalized text has at most 5000 characters;   *)
(* a longer text is cut at 5000 after the trimming, and the cut can fall   *)
(* right behind a single space.                                            *)
C14_ExcerptCutAfterTrim ==
    Extracted =>
        /\ ExcerptShape
        /\ TextLen(Normalized) <= TextLimit => NoTrailingSpace(excerpt)

C14_Witness ==
    /\ pc = "summarize"
    /\ TextLen(Normalized) > TextLimit
    /\ TextLen(excerpt) = TextLimit
    /\ IsSpace(excerpt[Len(excerpt)])
    /\ text_content = "text"

----------------------------------------------------------------------------
(* C15: a sheet append that returns false is not escalated: with the draft *)
(* published the company is still a success, with no email found still a   *)
(* failure; the append is not repeated and errors does not go up.          *)
C15_FailedAppendNotEscalated ==
    /\ \A i \in Companies :
         /\ Has(i, "update_success_log", "false") =>
                /\ Has(i, "create_gmail_draft", "true")
                /\ outcome[i] = "successes"
                /\ escaped[i] = "none"
                /\ Cardinality(SuccessRows(i)) = 1
                /\ Names(i) = FoundOrder
         /\ Has(i, "log_failed_lookup", "false") =>
                /\ contacts[i].emails = << >>
                /\ outcome[i] = "failures"
                /\ escaped[i] = "none"
                /\ Cardinality(FailureRows(i)) = 1
                /\ Names(i) = NotFoundOrder
    /\ results.errors = Cardinality({ i \in Companies : outcome[i] = "errors" })

C15_Witness ==
    /\ pc = "return"
    /\ N = 2
    /\ Has(1, "update_success_log", "false")
    /\ Has(2, "log_failed_lookup", "false")
    /\ results.errors = 0

----------------------------------------------------------------------------
(* The campaign ran over a non-empty list to its end. *)
Completed ==
    /\ N > 0
    /\ idx = N + 1
    /\ pc \in { "return", "exited" }
    /\ pc = "exited" => exit_code[1] # EXIT_INTERRUPTED

(* C16: at the end of a campaign over a non-empty list errors < len        *)
(* already gives processed > 0, every company outside processed being in   *)
(* errors; so the exit status is 0 exactly when some company was           *)
(* classified success or failure, and the processed > 0 half of the exit   *)
(* test decides nothing.                                                   *)
C16_ProcessedTestRedundant ==
    Completed =>
        /\ results.errors < N => results.processed > 0
        /\ results.processed + results.errors >= N
        /\ exit_status(results, N) =
               IF results.errors < N THEN EXIT_SUCCESS ELSE EXIT_FAILURE
        /\ pc = "exited" =>
               ( exit_code[1] = EXIT_SUCCESS
                 <=> \E i \in 1..N : outcome[i] \in { "successes", "failures" } )

C16_Witness ==
    /\ pc = "exited"
    /\ exit_code = << EXIT_SUCCESS >>
    /\ N = 2
    /\ Has(1, "extract_text_from_html", "empty")
    /\ results.errors = 1
    /\ results.processed = 1

----------------------------------------------------------------------------
DraftBeforeSuccessRow(i) ==
    \E k \in DOMAIN calls[i] :
        /\ calls[i][k] = << "create_gmail_draft", "true" >>
        /\ \A j \in DOMAIN calls[i] : calls[i][j][1] = "update_success_log" => k < j

(* C17: a company gets at most one log append, never one of each kind; a   *)
(* success append comes only after create_gmail_draft returned true for    *)
(* that company, a failure append only when the lookup returned no email;  *)
(* so successes <= success appends <= drafts reported created, and         *)
(* failures <= failure appends.                                            *)
C17_LogAndDraftAccounting ==
    /\ \A i \in Companies :
         /\ Cardinality(SuccessRows(i)) + Cardinality(FailureRows(i)) <= 1
         /\ SuccessRows(i) # { } => DraftsFor(i) # { } /\ DraftBeforeSuccessRow(i)
         /\ FailureRows(i) # { } =>
                /\ WasCalled(i, "find_contacts_hunter")
                /\ ~Has(i, "find_contacts_hunter", "raised")
                /\ contacts[i].emails = << >>
    /\ results.successes <= Len(success_log)
    /\ Len(success_log) <= Len(drafts)
    /\ results.failures <= Len(failure_log)

C17_Witness ==
    /\ Len(drafts) = 2
    /\ Len(success_log) = 1
    /\ escaped[1] = "update_success_log"
    /\ results.successes = 0
    /\ pc = "success_log"

----------------------------------------------------------------------------
(* The token that was loaded is valid or a refresh makes it so. *)
LoadedCanBeMadeValid ==
    \/ environ.token = "valid"
    \/ environ.token = "expired_with_refresh_token" /\ environ.refresh = "ok"

(* C18: get_google_credentials returns valid credentials or ends the       *)
(* process with status 1, whatever the token file, the refresh and the     *)
(* client-credentials file are like; it never returns credentials whose    *)
(* valid is false and runs the interactive flow whenever the loaded token  *)
(* cannot be made valid.                                                   *)
C18_ValidOrExit ==
    /\ pc = "read" => creds # << >> /\ creds[1].valid
    /\ pc = "exited" => exit_code = << EXIT_FAILURE >>
    /\ ( pc \in { "return_creds", "read" } /\ ~LoadedCanBeMadeValid ) => flowed

====
